---- MODULE Spec2Model ----
(***************************************************************************)
(* Verification model of the NC-CQR forecasting engine of                  *)
(* no2-prediction-system: training pipeline (configuration check, split,   *)
(* training, conformal calibration, evaluation), the autoregressive        *)
(* forecaster, the scoped RNG controller and the model store.              *)
(***************************************************************************)
EXTENDS Integers, Sequences, FiniteSets, TLC

(***************************************************************************)
(* Bounds of the model.                                                    *)
(***************************************************************************)
MaxRows == 7          \* rows returned by load_data_from_mysql: 1..MaxRows
MaxEpochs == 2        \* largest epochs value tried
MaxBatch == 2         \* largest batch_size value tried
MaxCalib == 2         \* largest calibration split of the calibrator model
MaxTest == 1          \* largest test split of the calibrator model
MaxLongCalib == 20    \* longest calibration split of the calibrator model
MaxRaw == 2           \* raw network outputs and targets range over 0..MaxRaw
RngMod == 3           \* number of distinct states of one RNG source
MaxRuns == 3          \* trainings started in one process
MaxInput == 2         \* input widths 1..MaxInput
MaxWidth == 2         \* hidden-layer widths 1..MaxWidth
MaxHidden == 1        \* hidden-layer lists of length 0..MaxHidden
MaxSteps == 3         \* largest forecast horizon
MaxHistory == 2       \* rows of the history table: 0..MaxHistory
MaxNo2 == 1           \* observed NO2 values 0..MaxNo2

(***************************************************************************)
(* Numeric representation.  A ratio r is the integer r * RatioUnit, so one *)
(* unit is 5e-7 and the tolerance 1e-6 of train_full_pipeline is 2 units.  *)
(***************************************************************************)
RatioUnit == 2000000
RatioTol == 2

VARIABLES
    \* ---- train_full_pipeline / train_nc_cqr_model (src/ml/src/train.py)
    pc,            \* position inside train_full_pipeline
    train_ratio, calib_ratio, test_ratio,
    epochs, batch_size,
    n_raw,         \* rows of the table load_data_from_mysql returns
    n_samples, n_train, n_calib, n_test,
    X_train, X_calib, X_test,   \* sequences of row indices (0-based) of X
    data_loaded,   \* load_data_from_mysql has been called
    features_built,\* prepare_nc_cqr_data has run
    epoch,         \* epochs completed by the training loop
    train_steps,   \* optimizer steps taken
    produced,      \* what the call has produced: "model", "Q", "eval", "scalers_file"
    error,         \* exception that left train_full_pipeline, or "none"
    \* ---- conformal calibration and evaluation (src/ml/src/train.py 211-290)
    cpc,           \* position: "calibrate", "evaluate", "done", "raised"
    calib,         \* calibration split: sequence of [lo, up, y], lo/up the
                   \* raw outputs of the network on the row, y its target
    test,          \* test split, same shape
    conformity_scores,
    quantile_level,\* numerator of the quantile level, over Q_den
    Q_num, Q_den,  \* Q_hat = Q_num / Q_den
    num_violations,\* calibration scores above Q_hat
    calib_warning, \* the calibrator printed its warning
    lower_bound, upper_bound,  \* evaluate_model's bounds, times Q_den
    record,        \* last record of predict_future_nc_cqr: lower_bound and
                   \* upper_bound times Q_den, prediction times 2 * Q_den
    \* ---- scoped RNG controller (src/ml/src/reproducibility.py) and the two
    \* ---- training entry points (control.train_mode, run_pipeline)
    rpc,           \* position of the process: "idle", "training", "built",
                   \* "finished", "failed"
    rng,           \* global RNG state: [python, numpy, torch, cuda]
    cuda_available,\* torch.cuda.is_available()
    ctx,           \* fields of the live ReproducibilityContext
    cur,           \* the training in progress: city, entry point, draws
    trained,       \* per city and entry point: the results trainings returned
    order,         \* completed trainings, in call order
    attempts,      \* trainings started
    entry_rng,     \* global RNG state when the context was entered
    last_exit,     \* the last __exit__: whether it left the global RNG state
                   \* as it was at entry, whether an exception caused it, and
                   \* the sources that had moved inside the block
    \* ---- model store (src/ml/src/train.py 293-347)
    spc,           \* position: "idle", "saved" (save_model was called),
                   \* "reloaded" (load_model after it), "loaded" (load_model alone)
    mem,           \* the in-memory (model, Q, scalers) of the trainer, or none
    disk,          \* the file at model_path: MissingFile or a checkpoint dict
    save_error,    \* exception raised by save_model, or "none"
    load_error,    \* exception raised by load_model, or "none"
    loaded,        \* what load_model returned, or none
    \* ---- autoregressive forecaster (src/ml/src/predict.py 22-107)
    fpc,           \* position: "idle" (between calls), "loop", "raised"
    net,           \* the network: its weights, and its training-mode flag
    fQ,            \* the calibration offset Q passed to the forecaster
    fscalers,      \* the ScalerSet passed to the forecaster
    last_data,     \* the caller's history table
    steps,         \* steps argument of the running call
    fi,            \* loop index i
    history,       \* the two-row rolling history
    predictions,   \* records emitted by the running call
    built_features,\* the feature dict built at each step of the running call
    returns,       \* results of the completed calls, in call order
    \* ---- feature standardization (src/ml/src/data_processing.py 50-61) in
    \* ---- train_full_pipeline and in control.evaluate_mode
    kpc,           \* per training run: position inside train_full_pipeline
    tables,        \* per training run: the temperature column of the table
                   \* load_data_from_mysql returns
    fitted,        \* per training run: the statistics of the fitted scaler
    X_std,         \* per training run: the standardized column of X
    train_obs,     \* per training run: the observations of the training split
    train_std,     \* per training run: the standardized training split
    artifact,      \* the model file written by train_mode, or none
    used,          \* per evaluation or inference call made: the scaler it
                   \* standardized with, the model file before and after
    \* ---- model files of the training entry points
    \* ---- (src/scripts/run_pipeline.py, src/ml/src/control.py)
    today,         \* the current date, as a day number
    daily,         \* per city and date: the daily model file (0: no file,
                   \* k > 0: the model of the k-th training)
    control,       \* per city: the model file of control.train_mode
    latest_link,   \* per city: the date the latest-model link points to, or
                   \* NoLink
    trainings,     \* trainings completed so far
    run,           \* the running train_all_cities call: loop index, the
                   \* result lists and what happened to each city, or idle
    results,        \* what the last train_all_cities call returned
    \* ---- two ReproducibilityContext blocks run as threads of one process
    \* ---- (src/ml/src/reproducibility.py 106-162)
    tpc,           \* per thread (named by its city): position
    grng,          \* the global RNG state the threads share
    tctx,          \* per thread: the fields of its ReproducibilityContext
    tinit,         \* per thread: the initial weights its training drew
    rng0,          \* the global RNG state before either thread entered
    events,         \* the steps taken so far, in order
    \* ---- the training loop of train_nc_cqr_model (src/ml/src/train.py
    \* ---- 156-209), batch by batch
    lpc,           \* position: "epoch_start", "batches", "trained", "raised"
    loop_rows,     \* rows of the training split
    loop_batch_size,
    loop_epochs,   \* the epochs argument
    batch_norm,    \* hidden_dims is not empty: the network has BatchNorm1d
    loop_epoch,    \* the loop variable epoch
    pending,       \* sizes of the batches the loader has still to yield
    fed,           \* sizes of the batches given to the network in train mode
    num_batches,
    epoch_crossing_penalty,  \* in units of 1 / LambdaUnit
    lambda_penalty,          \* in units of 1 / LambdaUnit
    loss_lambda,   \* lambda_penalty argument of the last loss call
    warned,        \* the last progress report printed the crossing warning
    loop_error     \* exception that left the loop, or "none"

splitVars == <<pc, train_ratio, calib_ratio, test_ratio, epochs, batch_size,
               n_raw, n_samples, n_train, n_calib, n_test,
               X_train, X_calib, X_test, data_loaded, features_built,
               epoch, train_steps, produced, error>>

calibVars == <<cpc, calib, test, conformity_scores, quantile_level,
               Q_num, Q_den, num_violations, calib_warning,
               lower_bound, upper_bound, record>>

rngVars == <<rpc, rng, cuda_available, ctx, cur, trained, order, attempts,
             entry_rng, last_exit>>

storeVars == <<spc, mem, disk, save_error, load_error, loaded>>

fcVars == <<fpc, net, fQ, fscalers, last_data, steps, fi, history,
            predictions, built_features, returns>>

scalerVars == <<kpc, tables, fitted, X_std, train_obs, train_std, artifact, used>>

artVars == <<today, daily, control, latest_link, trainings, run, results>>

threadVars == <<tpc, grng, tctx, tinit, rng0, events>>

loopVars == <<lpc, loop_rows, loop_batch_size, loop_epochs, batch_norm,
              loop_epoch, pending, fed, num_batches, epoch_crossing_penalty,
              lambda_penalty, loss_lambda, warned, loop_error>>

vars == <<splitVars, calibVars, rngVars, storeVars, fcVars, scalerVars, artVars, threadVars, loopVars>>

\* what each part of the model leaves alone
outsideSplit == <<calibVars, rngVars, storeVars, fcVars, scalerVars, artVars, threadVars, loopVars>>
outsideCalib == <<splitVars, rngVars, storeVars, fcVars, scalerVars, artVars, threadVars, loopVars>>
outsideRng == <<splitVars, calibVars, storeVars, fcVars, scalerVars, artVars, threadVars, loopVars>>
outsideStore == <<splitVars, calibVars, rngVars, fcVars, scalerVars, artVars, threadVars, loopVars>>
outsideForecast == <<splitVars, calibVars, rngVars, storeVars, scalerVars, artVars, threadVars, loopVars>>
outsideScaler == <<splitVars, calibVars, rngVars, storeVars, fcVars, artVars, threadVars, loopVars>>
outsideArtifacts == <<splitVars, calibVars, rngVars, storeVars, fcVars, scalerVars, threadVars, loopVars>>
outsideThreads == <<splitVars, calibVars, rngVars, storeVars, fcVars, scalerVars, artVars, loopVars>>
outsideLoop == <<splitVars, calibVars, rngVars, storeVars, fcVars, scalerVars, artVars, threadVars>>

(***************************************************************************)
(* Python helpers.                                                         *)
(***************************************************************************)
Abs(x) == IF x < 0 THEN -x ELSE x
Max2(a, b) == IF a >= b THEN a ELSE b
Min2(a, b) == IF a <= b THEN a ELSE b

\* int(x) of the float x = num/den (den > 0): truncation toward zero
PyInt(num, den) == IF num >= 0 THEN num \div den ELSE -((-num) \div den)

\* a slice bound k of a sequence of length n, as Python normalises it
SliceBound(n, k) == IF k < 0 THEN Max2(0, n + k) ELSE Min2(k, n)

\* X[a:b] of the n-row array X, as the sequence of the row indices it holds
PySlice(n, a, b) ==
    LET lo == SliceBound(n, a)
        hi == SliceBound(n, b)
    IN  IF hi <= lo THEN << >> ELSE [i \in 1..(hi - lo) |-> lo + i - 1]

\* X[a:] of the n-row array X
PySliceFrom(n, a) == PySlice(n, a, n)

Range(s) == {s[i] : i \in 1..Len(s)}

(***************************************************************************)
(* train_full_pipeline: configuration check (train.py 370-372).            *)
(***************************************************************************)
RatiosRejectedNoAbs(tr, cr, te) == tr + cr + te - RatioUnit > RatioTol
RatiosRejected(tr, cr, te) == Abs(tr + cr + te - RatioUnit) > RatioTol

(***************************************************************************)
(* int(n_samples * ratio) (train.py 382-383).  n_samples * ratio is a      *)
(* float product: when the exact product is a whole number and the ratio   *)
(* is not a binary fraction, the rounded product may fall just short of    *)
(* it, and int(), which truncates toward zero, then yields a magnitude     *)
(* one less.  Both outcomes are kept.                                      *)
(***************************************************************************)
BinaryFraction(r) == (4 * r) % RatioUnit = 0

IntOfProduct(n, r) ==
    LET exact == PyInt(n * r, RatioUnit)
    IN  IF (n * r) % RatioUnit = 0 /\ exact # 0 /\ ~BinaryFraction(r)
        THEN {exact, IF exact > 0 THEN exact - 1 ELSE exact + 1}
        ELSE {exact}

\* the three slices of train.py 387-394
TrainSlice(n, nt, nc) == PySlice(n, 0, nt)
CalibSlice(n, nt, nc) == PySlice(n, nt, nt + nc)
TestSlice(n, nt, nc) == PySliceFrom(n, nt + nc)

(***************************************************************************)
(* prepare_nc_cqr_data: shift(1), shift(2) and dropna leave the rows from  *)
(* the third on (data_processing.py 36-40).                                *)
(***************************************************************************)
LagRows == 2
RowsAfterLagDrop(n) == Max2(0, n - LagRows)

(***************************************************************************)
(* Batches of one epoch: DataLoader without drop_last yields               *)
(* ceil(n/batch_size) batches, the last one holding the remainder.         *)
(***************************************************************************)
NumBatches(n, b) == (n + b - 1) \div b
LastBatchSize(n, b) == IF n % b = 0 THEN b ELSE n % b
HasSingletonBatch(n, b) == n >= 1 /\ LastBatchSize(n, b) = 1

(***************************************************************************)
(* Inputs of one call of train_full_pipeline.                              *)
(***************************************************************************)
RatioGrid == {-(RatioUnit \div 2), 0, RatioUnit \div 10, 3 * (RatioUnit \div 10),
              RatioUnit \div 2, 6 * (RatioUnit \div 10), RatioUnit}
RatioEps == {-3, -2, 0, 2, 3}
EpochsTried == {-1, 0} \cup 1..MaxEpochs
BatchTried == {-1, 0} \cup 1..MaxBatch

Cities == {"dongguan", "guangzhou"}
EntryPoints == {"train_mode", "pipeline"}
NoContext == [city |-> "none"]
NoTraining == [city |-> "none"]
NoExit == [none |-> TRUE]
NoEntry == [python |-> 0, numpy |-> 0, torch |-> 0, cuda |-> 0]

IdleRng ==
    /\ rpc = "off"
    /\ rng = [python |-> 0, numpy |-> 0, torch |-> 0, cuda |-> 0]
    /\ cuda_available = FALSE
    /\ ctx = NoContext
    /\ cur = NoTraining
    /\ trained = [c \in Cities |-> [e \in EntryPoints |-> {}]]
    /\ order = << >>
    /\ attempts = 0
    /\ entry_rng = NoEntry
    /\ last_exit = NoExit

Nothing == [none |-> TRUE]

IdleStore ==
    /\ spc = "off"
    /\ mem = Nothing
    /\ disk = [exists |-> FALSE]
    /\ save_error = "none"
    /\ load_error = "none"
    /\ loaded = Nothing

IdleForecast ==
    /\ fpc = "off"
    /\ net = Nothing
    /\ fQ = 0
    /\ fscalers = Nothing
    /\ last_data = << >>
    /\ steps = 0
    /\ fi = 0
    /\ history = << >>
    /\ predictions = << >>
    /\ built_features = << >>
    /\ returns = << >>

IdleScaler ==
    /\ kpc = << >>
    /\ tables = << >>
    /\ fitted = << >>
    /\ X_std = << >>
    /\ train_obs = << >>
    /\ train_std = << >>
    /\ artifact = Nothing
    /\ used = {}

IdleArtifacts ==
    /\ today = 0
    /\ daily = << >>
    /\ control = << >>
    /\ latest_link = << >>
    /\ trainings = 0
    /\ run = Nothing
    /\ results = Nothing

IdleThreads ==
    /\ tpc = << >>
    /\ grng = NoEntry
    /\ tctx = << >>
    /\ tinit = << >>
    /\ rng0 = NoEntry
    /\ events = << >>

IdleLoop ==
    /\ lpc = "off"
    /\ loop_rows = 0
    /\ loop_batch_size = 0
    /\ loop_epochs = 0
    /\ batch_norm = FALSE
    /\ loop_epoch = 0
    /\ pending = << >>
    /\ fed = {}
    /\ num_batches = 0
    /\ epoch_crossing_penalty = 0
    /\ lambda_penalty = 0
    /\ loss_lambda = 0
    /\ warned = FALSE
    /\ loop_error = "none"

IdleCalib ==
    /\ cpc = "idle"
    /\ calib = << >> /\ test = << >>
    /\ conformity_scores = << >>
    /\ quantile_level = 0
    /\ Q_num = 0 /\ Q_den = 1
    /\ num_violations = 0 /\ calib_warning = FALSE
    /\ lower_bound = << >> /\ upper_bound = << >>
    /\ record = [none |-> TRUE]

InitSplit ==
    /\ IdleLoop
    /\ IdleThreads
    /\ IdleArtifacts
    /\ IdleScaler
    /\ IdleForecast
    /\ IdleCalib
    /\ IdleRng
    /\ IdleStore
    /\ pc = "check_ratios"
    /\ train_ratio \in RatioGrid
    /\ calib_ratio \in RatioGrid
    /\ test_ratio \in RatioGrid \cup
                        {RatioUnit - train_ratio - calib_ratio + e : e \in RatioEps}
    /\ epochs \in EpochsTried
    /\ batch_size \in BatchTried
    /\ n_raw \in 1..MaxRows
    /\ n_samples = 0 /\ n_train = 0 /\ n_calib = 0 /\ n_test = 0
    /\ X_train = << >> /\ X_calib = << >> /\ X_test = << >>
    /\ data_loaded = FALSE
    /\ features_built = FALSE
    /\ epoch = 0
    /\ train_steps = 0
    /\ produced = {}
    /\ error = "none"

Raise(e) == pc' = "raised" /\ error' = e

\* train.py 370-372
CheckRatios ==
    /\ pc = "check_ratios"
    /\ IF RatiosRejected(train_ratio, calib_ratio, test_ratio)
       THEN Raise("ValueError")
       ELSE pc' = "load_data" /\ UNCHANGED error
    /\ UNCHANGED <<train_ratio, calib_ratio, test_ratio, epochs, batch_size,
                   n_raw, n_samples, n_train, n_calib, n_test,
                   X_train, X_calib, X_test, data_loaded, features_built,
                   epoch, train_steps, produced>>

\* train.py 375
LoadData ==
    /\ pc = "load_data"
    /\ data_loaded' = TRUE
    /\ pc' = "prepare"
    /\ UNCHANGED <<train_ratio, calib_ratio, test_ratio, epochs, batch_size,
                   n_raw, n_samples, n_train, n_calib, n_test,
                   X_train, X_calib, X_test, features_built,
                   epoch, train_steps, produced, error>>

\* train.py 378: StandardScaler.fit_transform raises ValueError on 0 rows
PrepareData ==
    /\ pc = "prepare"
    /\ features_built' = TRUE
    /\ IF RowsAfterLagDrop(n_raw) = 0
       THEN Raise("ValueError") /\ UNCHANGED n_samples
       ELSE /\ n_samples' = RowsAfterLagDrop(n_raw)
            /\ pc' = "split"
            /\ UNCHANGED error
    /\ UNCHANGED <<train_ratio, calib_ratio, test_ratio, epochs, batch_size,
                   n_raw, n_train, n_calib, n_test,
                   X_train, X_calib, X_test, data_loaded,
                   epoch, train_steps, produced>>

\* train.py 381-394
SplitData ==
    /\ pc = "split"
    /\ \E nt \in IntOfProduct(n_samples, train_ratio),
          nc \in IntOfProduct(n_samples, calib_ratio) :
          /\ n_train' = nt
          /\ n_calib' = nc
          /\ n_test' = n_samples - nt - nc
          /\ X_train' = TrainSlice(n_samples, nt, nc)
          /\ X_calib' = CalibSlice(n_samples, nt, nc)
          /\ X_test' = TestSlice(n_samples, nt, nc)
    /\ pc' = "make_loader"
    /\ UNCHANGED <<train_ratio, calib_ratio, test_ratio, epochs, batch_size,
                   n_raw, n_samples, data_loaded, features_built,
                   epoch, train_steps, produced, error>>

\* train.py 139-157: DataLoader rejects batch_size <= 0; a RandomSampler over
\* an empty dataset is rejected by some torch versions and accepted by others
MakeLoader ==
    /\ pc = "make_loader"
    /\ \/ /\ batch_size <= 0
          /\ Raise("ValueError")
       \/ /\ batch_size > 0
          /\ Len(X_train) = 0
          /\ Raise("ValueError")
       \/ /\ batch_size > 0
          /\ pc' = "train_loop"
          /\ UNCHANGED error
    /\ UNCHANGED <<train_ratio, calib_ratio, test_ratio, epochs, batch_size,
                   n_raw, n_samples, n_train, n_calib, n_test,
                   X_train, X_calib, X_test, data_loaded, features_built,
                   epoch, train_steps, produced>>

\* train.py 162-192: one epoch; BatchNorm1d in training mode raises
\* ValueError on a batch of one row
TrainEpoch ==
    /\ pc = "train_loop"
    /\ epoch < epochs
    /\ IF HasSingletonBatch(Len(X_train), batch_size)
       THEN /\ Raise("ValueError")
            /\ train_steps' = train_steps + NumBatches(Len(X_train), batch_size) - 1
            /\ UNCHANGED epoch
       ELSE /\ epoch' = epoch + 1
            /\ train_steps' = train_steps + NumBatches(Len(X_train), batch_size)
            /\ UNCHANGED <<pc, error>>
    /\ UNCHANGED <<train_ratio, calib_ratio, test_ratio, epochs, batch_size,
                   n_raw, n_samples, n_train, n_calib, n_test,
                   X_train, X_calib, X_test, data_loaded, features_built,
                   produced>>

\* train.py 211-252: calibration; (n_calib + 1) / n_calib divides by zero
\* on an empty calibration split
Calibrate ==
    /\ pc = "train_loop"
    /\ epoch >= epochs
    /\ IF Len(X_calib) = 0
       THEN Raise("ZeroDivisionError") /\ UNCHANGED produced
       ELSE /\ produced' = produced \cup {"model", "Q"}
            /\ pc' = "evaluate"
            /\ UNCHANGED error
    /\ UNCHANGED <<train_ratio, calib_ratio, test_ratio, epochs, batch_size,
                   n_raw, n_samples, n_train, n_calib, n_test,
                   X_train, X_calib, X_test, data_loaded, features_built,
                   epoch, train_steps>>

\* train.py 410
Evaluate ==
    /\ pc = "evaluate"
    /\ produced' = produced \cup {"eval"}
    /\ pc' = "save_scalers"
    /\ UNCHANGED <<train_ratio, calib_ratio, test_ratio, epochs, batch_size,
                   n_raw, n_samples, n_train, n_calib, n_test,
                   X_train, X_calib, X_test, data_loaded, features_built,
                   epoch, train_steps, error>>

\* train.py 415-417
SaveScalersAndReturn ==
    /\ pc = "save_scalers"
    /\ produced' = produced \cup {"scalers_file"}
    /\ pc' = "returned"
    /\ UNCHANGED <<train_ratio, calib_ratio, test_ratio, epochs, batch_size,
                   n_raw, n_samples, n_train, n_calib, n_test,
                   X_train, X_calib, X_test, data_loaded, features_built,
                   epoch, train_steps, error>>

NextSplit ==
    \/ CheckRatios /\ UNCHANGED outsideSplit
    \/ LoadData /\ UNCHANGED outsideSplit
    \/ PrepareData /\ UNCHANGED outsideSplit
    \/ SplitData /\ UNCHANGED outsideSplit
    \/ MakeLoader /\ UNCHANGED outsideSplit
    \/ TrainEpoch /\ UNCHANGED outsideSplit
    \/ Calibrate /\ UNCHANGED outsideSplit
    \/ Evaluate /\ UNCHANGED outsideSplit
    \/ SaveScalersAndReturn /\ UNCHANGED outsideSplit

SpecSplit == InitSplit /\ [][NextSplit]_vars

(***************************************************************************)
(* Properties of train_full_pipeline.                                      *)
(***************************************************************************)
SplitTaken ==
    \/ pc \in {"make_loader", "train_loop", "evaluate", "save_scalers", "returned"}
    \/ pc = "raised" /\ n_samples > 0

Contiguous(s) == \A i \in 1..(Len(s) - 1) : s[i + 1] = s[i] + 1
Before(s, t) == \A i \in 1..Len(s) : \A j \in 1..Len(t) : s[i] < t[j]

\* C1: once train_full_pipeline has split the n_samples rows left after
\* lag-dropping, for every ratio triple that sums to 1.0, the train,
\* calibration and test index ranges are contiguous, pairwise disjoint, in
\* chronological order (train before calibration before test) and together
\* cover all n_samples rows.
SplitPartitionsRows ==
    SplitTaken =>
        /\ Contiguous(X_train) /\ Contiguous(X_calib) /\ Contiguous(X_test)
        /\ Range(X_train) \cap Range(X_calib) = {}
        /\ Range(X_train) \cap Range(X_test) = {}
        /\ Range(X_calib) \cap Range(X_test) = {}
        /\ Before(X_train, X_calib) /\ Before(X_calib, X_test)
        /\ Before(X_train, X_test)
        /\ Range(X_train) \cup Range(X_calib) \cup Range(X_test) = 0..(n_samples - 1)

\* C8: a ratio triple whose sum is not 1.0 (beyond the 1e-6 float tolerance
\* of the comparison) makes train_full_pipeline raise ValueError before any
\* data is loaded, any feature is built or any training step runs, and no
\* model, Q, evaluation or file is produced.
SumIsNotOne == Abs(train_ratio + calib_ratio + test_ratio - RatioUnit) > RatioTol

NonPositiveEpochsOrBatchRejectedFirst ==
    (epochs <= 0 \/ batch_size <= 0) =>
        /\ ~data_loaded
        /\ ~features_built
        /\ "model" \notin produced /\ "Q" \notin produced
        /\ pc # "returned"

\* C12: when fewer than 3 rows remain after lag-dropping, or the training or
\* the calibration split is empty, train_full_pipeline ends by raising an
\* error: it does not return, and it produces no model, no Q and no
\* evaluation report.
TooFewRows ==
    \/ features_built /\ RowsAfterLagDrop(n_raw) < 3
    \/ SplitTaken /\ (Len(X_train) = 0 \/ Len(X_calib) = 0)

InsufficientDataAborts ==
    TooFewRows =>
        /\ produced \cap {"model", "Q", "eval"} = {}
        /\ pc # "returned"

(***************************************************************************)
(* Conformal calibration (train.py 211-252), evaluate_model (255-290) and  *)
(* the calibrated record of predict_future_nc_cqr (predict.py 84-94).      *)
(* The network is any function from rows to (lower_raw, upper_raw): its    *)
(* two heads are unconstrained, so the outputs on each row are free.       *)
(***************************************************************************)
AlphaPct == 5                       \* alpha = 0.05, in percent
TolerancePct == 5                   \* violation_rate <= alpha + 0.05  (train.py 247)

\* E_i = max(f1(X_i) - Y_i, Y_i - f2(X_i))   (train.py 224-227)
ScoreLowerOnly(r) == r.lo - r.y
Score(r) == Max2(r.lo - r.y, r.y - r.up)
ScoresOf(rows) == [i \in 1..Len(rows) |-> Score(rows[i])]

\* quantile_level = min(1.0, (1 - alpha)(n + 1) / n), as a numerator over
\* 100 * n   (train.py 230-232)
LevelDen(n) == 100 * n
LevelNumOfAlpha(n) == Min2(LevelDen(n), AlphaPct * (n + 1))
LevelNum(n) == Min2(LevelDen(n), (100 - AlphaPct) * (n + 1))

\* k-th smallest (k = 0 .. n-1) element of a sequence
KthSmallest(sc, k) ==
    CHOOSE v \in Range(sc) :
        /\ Cardinality({i \in 1..Len(sc) : sc[i] < v}) <= k
        /\ Cardinality({i \in 1..Len(sc) : sc[i] <= v}) > k

\* torch.quantile(scores, level) with linear interpolation, times LevelDen(n):
\* position level * (n - 1) between the order statistics   (train.py 234)
QuantileTimesDen(sc, num) ==
    LET n == Len(sc)
        den == LevelDen(n)
        pos == num * (n - 1)
        k == pos \div den
        frac == pos % den
        below == KthSmallest(sc, k)
    IN  IF frac = 0 THEN below * den
        ELSE below * den + frac * (KthSmallest(sc, k + 1) - below)

RawRows == [lo : 0..MaxRaw, up : 0..MaxRaw, y : 0..MaxRaw]

SeqsUpTo(S, n) == UNION {[1..k -> S] : k \in 0..n}

\* calibration splits long enough for quantile_level to stay below 1.0
\* ((1 - alpha)(n + 1) <= n from n = (1 - alpha) / alpha on): rows of two
\* kinds, on which the lower head is exact
LongRows == {r \in RawRows : r.lo = 0 /\ r.up = 0}
LongCalibs ==
    {[i \in 1..n |-> IF i <= k THEN r1 ELSE r2] :
        n \in ((100 - AlphaPct) \div AlphaPct)..MaxLongCalib,
        k \in 0..MaxLongCalib, r1 \in LongRows, r2 \in LongRows}

IdleSplit ==
    /\ pc = "idle"
    /\ train_ratio = 0 /\ calib_ratio = 0 /\ test_ratio = 0
    /\ epochs = 0 /\ batch_size = 0
    /\ n_raw = 0
    /\ n_samples = 0 /\ n_train = 0 /\ n_calib = 0 /\ n_test = 0
    /\ X_train = << >> /\ X_calib = << >> /\ X_test = << >>
    /\ data_loaded = FALSE
    /\ features_built = FALSE
    /\ epoch = 0
    /\ train_steps = 0
    /\ produced = {}
    /\ error = "none"

InitCalib ==
    /\ IdleLoop
    /\ IdleThreads
    /\ IdleArtifacts
    /\ IdleScaler
    /\ IdleForecast
    /\ IdleSplit
    /\ IdleRng
    /\ IdleStore
    /\ cpc = "calibrate"
    /\ calib \in SeqsUpTo(RawRows, MaxCalib)
    /\ test \in SeqsUpTo(RawRows, MaxTest)
    /\ conformity_scores = << >>
    /\ quantile_level = 0
    /\ Q_num = 0 /\ Q_den = 1
    /\ num_violations = 0 /\ calib_warning = FALSE
    /\ lower_bound = << >> /\ upper_bound = << >>
    /\ record = [none |-> TRUE]

\* train.py 211-252
CalibrateQ ==
    /\ cpc = "calibrate"
    /\ IF Len(calib) = 0
       THEN /\ cpc' = "raised"
            /\ UNCHANGED <<conformity_scores, quantile_level, Q_num, Q_den,
                           num_violations, calib_warning>>
       ELSE LET n_cal == Len(calib)
                scores == ScoresOf(calib)
                Q_hat == QuantileTimesDen(scores, LevelNum(n_cal))
                violations == Cardinality({i \in 1..n_cal :
                                             scores[i] * LevelDen(n_cal) > Q_hat})
            IN  /\ conformity_scores' = scores
                /\ quantile_level' = LevelNum(n_cal)
                /\ Q_den' = LevelDen(n_cal)
                /\ Q_num' = Q_hat
                /\ num_violations' = violations
                /\ calib_warning' =
                      ~(100 * violations <= (AlphaPct + TolerancePct) * n_cal)
                /\ cpc' = "evaluate"
    /\ UNCHANGED <<calib, test, lower_bound, upper_bound, record>>

\* train.py 270-290
EvaluateModel ==
    /\ cpc = "evaluate"
    /\ lower_bound' = [i \in 1..Len(test) |-> test[i].lo * Q_den - Q_num]
    /\ upper_bound' = [i \in 1..Len(test) |-> test[i].up * Q_den + Q_num]
    /\ cpc' = "done"
    /\ UNCHANGED <<calib, test, conformity_scores, quantile_level, Q_num, Q_den,
                   num_violations, calib_warning, record>>

\* predict.py 78-94: one record, for an input on which the network returns
\* (lo, up)
EmitRecord ==
    /\ cpc = "done"
    /\ \E lo \in 0..MaxRaw, up \in 0..MaxRaw :
          LET lb == lo * Q_den - Q_num
              ub == up * Q_den + Q_num
          IN  record' = [lower_raw |-> lo, upper_raw |-> up,
                         lower_bound |-> lb, upper_bound |-> ub,
                         prediction |-> lb + ub]
    /\ UNCHANGED <<cpc, calib, test, conformity_scores, quantile_level,
                   Q_num, Q_den, num_violations, calib_warning,
                   lower_bound, upper_bound>>

NextCalib ==
    \/ CalibrateQ /\ UNCHANGED outsideCalib
    \/ EvaluateModel /\ UNCHANGED outsideCalib
    \/ EmitRecord /\ UNCHANGED outsideCalib

SpecCalib == InitCalib /\ [][NextCalib]_vars

\* C2: every interval computed by evaluate_model and every record emitted by
\* predict_future_nc_cqr has lower_bound <= upper_bound, whatever the raw
\* outputs and the offset Q.
CalibratedBoundsOrdered ==
    /\ \A i \in 1..Len(lower_bound) : lower_bound[i] <= upper_bound[i]
    /\ "lower_bound" \in DOMAIN record => record.lower_bound <= record.upper_bound

\* the sequence s without its j-th element
LeaveOut(s, j) == [i \in 1..(Len(s) - 1) |-> IF i < j THEN s[i] ELSE s[i + 1]]

\* the calibration rows and the new sample, as one pool of exchangeable
\* samples: each member is the new sample equally often, the others being
\* the calibration split; Covers(pool, j) says the interval calibrated on
\* the others contains the target of the j-th (its score is at most Q)
Covers(pool, j) ==
    LET others == LeaveOut(pool, j)
        n == Len(others)
    IN  Score(pool[j]) * LevelDen(n) <= QuantileTimesDen(ScoresOf(others), LevelNum(n))

CoveredCount(pool) == Cardinality({j \in 1..Len(pool) : Covers(pool, j)})

\* C14: with Q computed by the calibrator from n calibration samples, the
\* calibrated interval [lower_raw - Q, upper_raw + Q] contains the target of
\* a new sample exchangeable with them with probability at least
\* 1 - alpha = 0.95: among the n + 1 equally likely choices of the new
\* sample in the pool, at least 95% are covered.
MarginalCoverageAtLeastOneMinusAlpha ==
    (cpc = "done" /\ Len(calib) >= 1 /\ Len(test) = 1) =>
        LET pool == Append(calib, test[1])
        IN  100 * CoveredCount(pool) >= (100 - AlphaPct) * Len(pool)

\* C18: the offset Q computed by the calibrator is never negative, so the
\* calibrated interval of evaluate_model and of every forecast record
\* contains the raw interval.
CalibrationOnlyWidens ==
    /\ cpc \in {"evaluate", "done"} => Q_num >= 0
    /\ \A i \in 1..Len(lower_bound) :
          /\ lower_bound[i] <= test[i].lo * Q_den
          /\ upper_bound[i] >= test[i].up * Q_den
    /\ "lower_bound" \in DOMAIN record =>
          /\ record.lower_bound <= record.lower_raw * Q_den
          /\ record.upper_bound >= record.upper_raw * Q_den

\* the calibrator alone, on the short and on the long calibration splits
InitCalibrator ==
    /\ IdleLoop /\ IdleThreads /\ IdleArtifacts /\ IdleScaler /\ IdleForecast
    /\ IdleSplit /\ IdleRng /\ IdleStore
    /\ cpc = "calibrate"
    /\ calib \in SeqsUpTo(RawRows, MaxCalib) \cup LongCalibs
    /\ test = << >>
    /\ conformity_scores = << >>
    /\ quantile_level = 0
    /\ Q_num = 0 /\ Q_den = 1
    /\ num_violations = 0 /\ calib_warning = FALSE
    /\ lower_bound = << >> /\ upper_bound = << >>
    /\ record = [none |-> TRUE]

NextCalibrator == CalibrateQ /\ UNCHANGED outsideCalib

SpecCalibrator == InitCalibrator /\ [][NextCalibrator]_vars

Calibrated == cpc \in {"evaluate", "done"}

\* C24: on a calibration split of n >= 1 rows every score is
\* max(lower_raw - y, y - upper_raw), the quantile level is
\* min(1, (1 - alpha)(n + 1) / n), which lies in [1 - alpha, 1], and Q is the
\* quantile of the scores of the calibration rows at that level.
CalibratorFollowsFormula ==
    Calibrated =>
        LET n == Len(calib)
        IN  /\ n >= 1
            /\ Len(conformity_scores) = n
            /\ \A i \in 1..n :
                  conformity_scores[i] =
                     IF calib[i].lo - calib[i].y >= calib[i].y - calib[i].up
                     THEN calib[i].lo - calib[i].y
                     ELSE calib[i].y - calib[i].up
            /\ Q_den = 100 * n
            /\ quantile_level =
                  IF (100 - AlphaPct) * (n + 1) <= 100 * n
                  THEN (100 - AlphaPct) * (n + 1)
                  ELSE 100 * n
            /\ (100 - AlphaPct) * n <= quantile_level
            /\ quantile_level <= 100 * n
            /\ Q_num = QuantileTimesDen(conformity_scores, quantile_level)

\* a calibration split of 20 rows: the level is below 1 and Q lies strictly
\* between two scores, above the upper-side score and the lower-side score
\* of some rows
CalibratedBelowLevelOne ==
    /\ Calibrated
    /\ quantile_level < Q_den
    /\ Q_num % Q_den # 0
    /\ \E i \in 1..Len(calib) : calib[i].y - calib[i].up > calib[i].lo - calib[i].y
    /\ \E i \in 1..Len(calib) : calib[i].y - calib[i].up <= calib[i].lo - calib[i].y

\* C27: on a calibration split of n >= 1 rows at most alpha + 0.05 = 10% of
\* the calibration scores are strictly greater than Q, so the calibrator
\* never prints its warning, and it returns.
CalibrationWarningNeverTaken ==
    /\ Calibrated =>
          /\ num_violations =
                Cardinality({i \in 1..Len(calib) :
                               conformity_scores[i] * Q_den > Q_num})
          /\ 100 * num_violations <= (AlphaPct + 5) * Len(calib)
          /\ ~calib_warning
    /\ (cpc = "raised") => Len(calib) = 0

\* a calibration split with a score above Q, within the tolerance
ScoreAboveQWithinTolerance ==
    /\ Calibrated
    /\ num_violations >= 1
    /\ ~calib_warning

(***************************************************************************)
(* Scoped RNG controller (reproducibility.py) and the two entry points     *)
(* that train a city: control.train_mode, which wraps train_full_pipeline  *)
(* in ensure_reproducibility_context, and run_pipeline's                   *)
(* train_city_with_version_control, which calls train_full_pipeline        *)
(* directly.  One RNG source is a counter modulo RngMod: a draw returns    *)
(* the current state and advances it, seeding sets the state from the seed.*)
(***************************************************************************)
Sources == {"python", "numpy", "torch", "cuda"}

\* generate_city_specific_seed(city, 42):
\* int(md5(city + "_42").hexdigest()[:8], 16) % (2**31 - 1)
GeneratedCitySeed == [c \in Cities |->
    IF c = "dongguan" THEN 420395668 ELSE 149902886]

\* CITY_SEEDS (reproducibility.py 263-275), read by get_city_seed
CITY_SEEDS == [c \in Cities |-> IF c = "dongguan" THEN 1001 ELSE 1002]

SeedState(seed) == seed % RngMod
Advance(st) == (st + 1) % RngMod

\* set_deterministic_seeds (reproducibility.py 14-60)
SeedSkipsTorch(r, seed, cuda) ==
    [python |-> SeedState(seed), numpy |-> SeedState(seed),
     torch |-> r.torch,
     cuda |-> IF cuda THEN SeedState(seed) ELSE r.cuda]
set_deterministic_seeds(r, seed, cuda) ==
    [python |-> SeedState(seed), numpy |-> SeedState(seed),
     torch |-> SeedState(seed),
     cuda |-> IF cuda THEN SeedState(seed) ELSE r.cuda]

\* the RNG state __exit__ installs (reproducibility.py 146-156); the saved
\* python and numpy states are non-empty tuples, hence truthy
RestoreSkipsNumpy(r, c, cuda) ==
    [python |-> c.original_python_state,
     numpy |-> r.numpy,
     torch |-> c.original_torch_state,
     cuda |-> IF cuda THEN c.original_cuda_state ELSE r.cuda]
RestoreStates(r, c, cuda) ==
    [python |-> c.original_python_state,
     numpy |-> c.original_numpy_state,
     torch |-> c.original_torch_state,
     cuda |-> IF cuda THEN c.original_cuda_state ELSE r.cuda]

RngStates == [python : 0..(RngMod - 1), numpy : 0..(RngMod - 1),
              torch : 0..(RngMod - 1), cuda : 0..(RngMod - 1)]

InitRng ==
    /\ IdleLoop
    /\ IdleThreads
    /\ IdleArtifacts
    /\ IdleScaler
    /\ IdleForecast
    /\ IdleSplit
    /\ IdleCalib
    /\ IdleStore
    /\ rpc = "idle"
    /\ cuda_available \in BOOLEAN
    /\ rng \in {r \in RngStates : ~cuda_available => r.cuda = 0}
    /\ ctx = NoContext
    /\ cur = NoTraining
    /\ trained = [c \in Cities |-> [e \in EntryPoints |-> {}]]
    /\ order = << >>
    /\ attempts = 0
    /\ entry_rng = NoEntry
    /\ last_exit = NoExit

\* any other code of the process drawing from a global source between
\* trainings
OtherDraw ==
    /\ rpc = "idle"
    /\ \E src \in Sources :
          /\ src = "cuda" => cuda_available
          /\ rng' = [rng EXCEPT ![src] = Advance(rng[src])]
    /\ UNCHANGED <<rpc, cuda_available, ctx, cur, trained, order, attempts,
                   entry_rng, last_exit>>

\* control.py 21-23 and ReproducibilityContext.__enter__
\* (reproducibility.py 122-140)
EnterContext ==
    /\ rpc = "idle"
    /\ attempts < MaxRuns
    /\ \E c \in Cities :
          /\ ctx' = [city |-> c,
                     original_python_state |-> rng.python,
                     original_numpy_state |-> rng.numpy,
                     original_torch_state |-> rng.torch,
                     original_cuda_state |-> rng.cuda]
          /\ rng' = set_deterministic_seeds(rng, GeneratedCitySeed[c], cuda_available)
          /\ cur' = [city |-> c, entry |-> "train_mode"]
    /\ entry_rng' = rng
    /\ attempts' = attempts + 1
    /\ rpc' = "training"
    /\ UNCHANGED <<cuda_available, trained, order, last_exit>>

\* run_pipeline.py 104-128: train_full_pipeline is called with no context
StartPipelineTraining ==
    /\ rpc = "idle"
    /\ attempts < MaxRuns
    /\ \E c \in Cities : cur' = [city |-> c, entry |-> "pipeline"]
    /\ attempts' = attempts + 1
    /\ rpc' = "training"
    /\ UNCHANGED <<rng, cuda_available, ctx, trained, order, entry_rng, last_exit>>

\* train.py 144-157: the loader's generator is seeded with get_city_seed(city);
\* QuantileNet(...) draws its initial weights from the global torch RNG
BuildModel ==
    /\ rpc = "training"
    /\ cur' = [city |-> cur.city, entry |-> cur.entry,
               shuffle |-> SeedState(CITY_SEEDS[cur.city]),
               init |-> rng.torch]
    /\ rng' = [rng EXCEPT !.torch = Advance(rng.torch)]
    /\ rpc' = "built"
    /\ UNCHANGED <<cuda_available, ctx, trained, order, attempts, entry_rng,
                   last_exit>>

\* train.py 162-252 and 405-417: the loop and the calibration draw from no
\* global source; weights and Q are a function of the initial weights, the
\* batch order and the data
FinishTraining ==
    /\ rpc = "built"
    /\ rpc' = "finished"
    /\ UNCHANGED <<rng, cuda_available, ctx, cur, trained, order, attempts,
                   entry_rng, last_exit>>

\* an exception leaves train_full_pipeline, before or after the model is built
FailTraining ==
    /\ rpc \in {"training", "built"}
    /\ rpc' = "failed"
    /\ UNCHANGED <<rng, cuda_available, ctx, cur, trained, order, attempts,
                   entry_rng, last_exit>>

ResultOf(t) == [init |-> t.init, shuffle |-> t.shuffle]

Recorded(t) ==
    /\ trained' = [trained EXCEPT ![t.city][t.entry] = @ \cup {ResultOf(t)}]
    /\ order' = Append(order, <<t.city, t.entry>>)

\* ReproducibilityContext.__exit__ (reproducibility.py 142-162), reached on
\* return and on exception, then control.py 26-44
ExitContext ==
    /\ rpc \in {"finished", "failed"}
    /\ cur.entry = "train_mode"
    /\ rng' = RestoreStates(rng, ctx, cuda_available)
    /\ last_exit' = [restored |-> (rng' = entry_rng),
                     by_exception |-> (rpc = "failed"),
                     changed_inside |-> {src \in Sources : rng[src] # entry_rng[src]}]
    /\ entry_rng' = NoEntry
    /\ IF rpc = "finished" THEN Recorded(cur) ELSE UNCHANGED <<trained, order>>
    /\ ctx' = NoContext
    /\ cur' = NoTraining
    /\ rpc' = "idle"
    /\ UNCHANGED <<cuda_available, attempts>>

\* run_pipeline.py 130-146
PipelineReturn ==
    /\ rpc \in {"finished", "failed"}
    /\ cur.entry = "pipeline"
    /\ IF rpc = "finished" THEN Recorded(cur) ELSE UNCHANGED <<trained, order>>
    /\ cur' = NoTraining
    /\ rpc' = "idle"
    /\ UNCHANGED <<rng, cuda_available, ctx, attempts, entry_rng, last_exit>>

NextRng ==
    \/ OtherDraw /\ UNCHANGED outsideRng
    \/ EnterContext /\ UNCHANGED outsideRng
    \/ StartPipelineTraining /\ UNCHANGED outsideRng
    \/ BuildModel /\ UNCHANGED outsideRng
    \/ FinishTraining /\ UNCHANGED outsideRng
    \/ FailTraining /\ UNCHANGED outsideRng
    \/ ExitContext /\ UNCHANGED outsideRng
    \/ PipelineReturn /\ UNCHANGED outsideRng

SpecRng == InitRng /\ [][NextRng]_vars

\* C4: two deterministic trainings of the same city with the same data and
\* configuration return the same weights and Q, whatever the global RNG
\* state at their start, through control.train_mode and through
\* train_city_with_version_control alike.
SameCitySameResult ==
    \A c \in Cities : \A e \in EntryPoints : Cardinality(trained[c][e]) <= 1

\* C5: a city trained inside ensure_reproducibility_context gets the draws
\* of its own seeds, whichever cities were trained before it in the process.
ExpectedResult(c) ==
    [init |-> GeneratedCitySeed[c] % RngMod, shuffle |-> CITY_SEEDS[c] % RngMod]

TrainModeOrderIndependent ==
    \A c \in Cities : trained[c]["train_mode"] \subseteq {ExpectedResult(c)}

TrainedBeforeAndAfterOther ==
    /\ Len(order) = 3
    /\ order[1] = <<"dongguan", "train_mode">>
    /\ order[2] = <<"guangzhou", "train_mode">>
    /\ order[3] = <<"dongguan", "train_mode">>
    /\ trained["dongguan"]["train_mode"] # {}
    /\ trained["guangzhou"]["train_mode"] # {}

\* C6: every exit from ReproducibilityContext, by return or by exception,
\* leaves each global RNG source in the state it had at entry.
ExitRestoresEntryState ==
    "restored" \in DOMAIN last_exit => last_exit.restored

ExitedByExceptionAfterDraws ==
    /\ "restored" \in DOMAIN last_exit
    /\ last_exit.by_exception
    /\ cuda_available
    /\ last_exit.changed_inside = Sources
    /\ last_exit.restored

\* C25: in a training run inside the reproducibility context one per-city
\* seed governs both sources of randomness: the generator that orders the
\* minibatches starts in the state the global torch generator, which the
\* initial weights are drawn from, was seeded to.
SingleSeedGovernsInitAndShuffle ==
    (rpc = "built" /\ cur.entry = "train_mode") => cur.shuffle = cur.init

(***************************************************************************)
(* Model store: save_model and load_model (train.py 293-347).  A network   *)
(* is its shape (input_dim, hidden_dims) and its state_dict; a state_dict  *)
(* carries the shape of the network it was taken from, because its keys    *)
(* and tensor sizes do.                                                    *)
(***************************************************************************)
HiddenLists == SeqsUpTo(1..MaxWidth, MaxHidden)
Shapes == [input_dim : 1..MaxInput, hidden_dims : HiddenLists]
StateDicts == [shape : Shapes, w : 0..1]
QValues == 0..1
ScalerSets == {"fit_A", "fit_B"}

\* QuantileNet(input_dim, hidden_dims) holding the weights w (train.py 17-46):
\* shared_layers lists, per hidden layer, Linear(prev, h), ReLU, BatchNorm1d(h)
Linears(input_dim, hidden_dims) ==
    [i \in 1..Len(hidden_dims) |->
        [in_features |-> IF i = 1 THEN input_dim ELSE hidden_dims[i - 1],
         out_features |-> hidden_dims[i]]]

QuantileNet(input_dim, hidden_dims, w) ==
    [input_dim |-> input_dim,
     shared_linears |-> Linears(input_dim, hidden_dims),
     state_dict |-> [shape |-> [input_dim |-> input_dim, hidden_dims |-> hidden_dims],
                     w |-> w]]

\* what the trainer can hand to save_model (train.py 156, 252)
TrainerOutputs ==
    {[model |-> QuantileNet(sh.input_dim, sh.hidden_dims, w), Q |-> q, scalers |-> sc] :
        sh \in Shapes, w \in 0..1, q \in QValues, sc \in ScalerSets}

Fields == {"model_state_dict", "Q", "scalers", "input_dim", "hidden_dims"}

\* the checkpoint dict of save_model (train.py 310-316): keys holds the keys
\* of the dict; model.shared_layers[0] raises IndexError on an empty Sequential
CheckpointOf(m) ==
    IF Len(m.model.shared_linears) = 0 THEN [raised |-> "IndexError"]
    ELSE [keys |-> Fields,
          model_state_dict |-> m.model.state_dict,
          Q |-> m.Q,
          scalers |-> m.scalers,
          input_dim |-> m.model.shared_linears[1].in_features,
          hidden_dims |-> [i \in 1..Len(m.model.shared_linears) |->
                              m.model.shared_linears[i].out_features]]

MissingFile == [exists |-> FALSE]

\* a file some earlier process left at model_path: any dict over a subset of
\* the five keys (a key that is absent keeps a fixed filler value that
\* nothing reads)
StoredFiles ==
    {ck \in [keys : SUBSET Fields, model_state_dict : StateDicts, Q : QValues,
             scalers : ScalerSets, input_dim : 1..MaxInput,
             hidden_dims : HiddenLists] :
        /\ "model_state_dict" \notin ck.keys =>
              ck.model_state_dict = [shape |-> [input_dim |-> 1, hidden_dims |-> << >>],
                                     w |-> 0]
        /\ "Q" \notin ck.keys => ck.Q = 0
        /\ "scalers" \notin ck.keys => ck.scalers = "fit_A"
        /\ "input_dim" \notin ck.keys => ck.input_dim = 1
        /\ "hidden_dims" \notin ck.keys => ck.hidden_dims = << >>}

\* load_model (train.py 334-347): the outcome for the file content d
LoadOutcomeDefaultQ(d) ==
    IF d = MissingFile THEN [error |-> "FileNotFoundError", result |-> Nothing]
    ELSE IF ~({"input_dim", "hidden_dims", "model_state_dict"} \subseteq d.keys)
         THEN [error |-> "KeyError", result |-> Nothing]
    ELSE IF d.model_state_dict.shape #
              [input_dim |-> d.input_dim, hidden_dims |-> d.hidden_dims]
         THEN [error |-> "RuntimeError", result |-> Nothing]
    ELSE IF "scalers" \notin d.keys
         THEN [error |-> "KeyError", result |-> Nothing]
    ELSE [error |-> "none",
          result |-> [model |-> QuantileNet(d.input_dim, d.hidden_dims,
                                            d.model_state_dict.w),
                      Q |-> IF "Q" \in d.keys THEN d.Q ELSE 0,
                      scalers |-> d.scalers]]

LoadOutcome(d) ==
    IF d = MissingFile THEN [error |-> "FileNotFoundError", result |-> Nothing]
    ELSE IF ~({"input_dim", "hidden_dims", "model_state_dict"} \subseteq d.keys)
         THEN [error |-> "KeyError", result |-> Nothing]
    ELSE IF d.model_state_dict.shape #
              [input_dim |-> d.input_dim, hidden_dims |-> d.hidden_dims]
         THEN [error |-> "RuntimeError", result |-> Nothing]
    ELSE IF ~({"Q", "scalers"} \subseteq d.keys)
         THEN [error |-> "KeyError", result |-> Nothing]
    ELSE [error |-> "none",
          result |-> [model |-> QuantileNet(d.input_dim, d.hidden_dims,
                                            d.model_state_dict.w),
                      Q |-> d.Q,
                      scalers |-> d.scalers]]

InitStore ==
    /\ IdleLoop
    /\ IdleThreads
    /\ IdleArtifacts
    /\ IdleScaler
    /\ IdleForecast
    /\ IdleSplit
    /\ IdleCalib
    /\ IdleRng
    /\ spc = "idle"
    /\ mem = Nothing
    /\ disk \in {MissingFile} \cup StoredFiles
    /\ save_error = "none"
    /\ load_error = "none"
    /\ loaded = Nothing

\* train_nc_cqr_model returns a model and Q, with the scalers of the run
TrainerProduces ==
    /\ spc = "idle"
    /\ mem = Nothing
    /\ mem' \in TrainerOutputs
    /\ UNCHANGED <<spc, disk, save_error, load_error, loaded>>

\* save_model(model, Q, scalers, model_path)  (train.py 293-321)
SaveModel ==
    /\ spc = "idle"
    /\ mem # Nothing
    /\ IF "raised" \in DOMAIN CheckpointOf(mem)
       THEN save_error' = CheckpointOf(mem).raised /\ UNCHANGED disk
       ELSE disk' = CheckpointOf(mem) /\ UNCHANGED save_error
    /\ spc' = "saved"
    /\ UNCHANGED <<mem, load_error, loaded>>

\* load_model(model_path)  (train.py 324-347)
LoadModel ==
    /\ spc \in {"idle", "saved"}
    /\ load_error' = LoadOutcome(disk).error
    /\ loaded' = LoadOutcome(disk).result
    /\ spc' = IF spc = "saved" THEN "reloaded" ELSE "loaded"
    /\ UNCHANGED <<mem, disk, save_error>>

NextStore ==
    \/ TrainerProduces /\ UNCHANGED outsideStore
    \/ SaveModel /\ UNCHANGED outsideStore
    \/ LoadModel /\ UNCHANGED outsideStore

SpecStore == InitStore /\ [][NextStore]_vars

\* C7: for every model the trainer can produce, save_model followed by
\* load_model of the same path returns the same network shape and weights,
\* the same Q and the same ScalerSet.
SaveLoadRoundTrip ==
    /\ spc \in {"saved", "reloaded"} => save_error = "none"
    /\ spc = "reloaded" => (load_error = "none" /\ loaded = mem)

\* C10: load_model on a missing path, or on a file lacking any of the five
\* fields, raises and returns nothing; whatever it returns is built from the
\* five stored fields, with no default in place of one.
FileComplete == disk # MissingFile /\ disk.keys = Fields

LoadAllOrNothing ==
    spc \in {"loaded", "reloaded"} =>
        /\ ~FileComplete => (load_error # "none" /\ loaded = Nothing)
        /\ load_error # "none" => loaded = Nothing
        /\ load_error = "none" =>
              /\ FileComplete
              /\ loaded.Q = disk.Q
              /\ loaded.scalers = disk.scalers
              /\ loaded.model.state_dict = disk.model_state_dict
              /\ loaded.model.input_dim = disk.input_dim
        /\ disk = MissingFile => load_error = "FileNotFoundError"

LoadRejectedIncompleteFile ==
    /\ spc = "loaded"
    /\ disk # MissingFile
    /\ disk.keys = Fields \ {"Q"}
    /\ load_error = "KeyError"
    /\ loaded = Nothing

(***************************************************************************)
(* Autoregressive forecaster: predict_future_nc_cqr (predict.py 22-107).   *)
(* Timestamps are hours counted from a Monday 00:00.  The network is a     *)
(* linear function of the feature vector with integer weights; its upper   *)
(* head is the lower head plus an even gap (negative when the heads        *)
(* cross), so that the midpoint of the calibrated bounds is a whole number.*)
(***************************************************************************)
HoursPerDay == 24
HoursPerWeek == 168

Hour(t) == t % HoursPerDay
DayOfWeek(t) == (t \div HoursPerDay) % 7
IsWeekend(t) == IF DayOfWeek(t) \in {5, 6} THEN 1 ELSE 0

\* pred_time = last observation_time + timedelta(hours = i + 1)  (predict.py 52)
PredTimeFromEnd(last_time, i, n) == last_time + n - i
PredTime(last_time, i, n) == last_time + i + 1

\* StandardScaler.transform with the fitted mean (unit scale)
Transform(sc, col, x) == x - sc[col]

\* np.sin / np.cos of np.radians(d) for d a multiple of 90 degrees
WindSin(d) == CASE d = 0 -> 0 [] d = 90 -> 1 [] d = 180 -> 0 [] d = 270 -> -1
WindCos(d) == CASE d = 0 -> 1 [] d = 90 -> 0 [] d = 180 -> -1 [] d = 270 -> 0

\* the feature dict of predict.py 55-67
Features(sc, latest, prev, pred_time) ==
    [temperature |-> Transform(sc, "temperature", latest.temperature),
     humidity |-> Transform(sc, "humidity", latest.humidity),
     wind_speed |-> Transform(sc, "wind_speed", latest.wind_speed),
     pressure |-> Transform(sc, "pressure", latest.pressure),
     wind_sin |-> WindSin(latest.wind_direction),
     wind_cos |-> WindCos(latest.wind_direction),
     no2_lag1 |-> latest.no2,
     no2_lag2 |-> prev.no2,
     hour |-> Hour(pred_time),
     day_of_week |-> DayOfWeek(pred_time),
     is_weekend |-> IsWeekend(pred_time)]

\* QuantileNet.forward in eval mode (train.py 43-46) for the weights w
LowerRaw(w, f) ==
    w.a * f.no2_lag1 + w.b * f.no2_lag2
    + w.c * (f.temperature + f.humidity + f.wind_speed + f.pressure
             + f.wind_sin + f.wind_cos)
    + w.d * (f.hour + f.day_of_week + f.is_weekend)
UpperRaw(w, f) == LowerRaw(w, f) + 2 * w.gap

\* the calibrated bounds, their midpoint and the record  (predict.py 84-94)
PredictionRecordNoOffset(pred_time, lower_pred, upper_pred, Q) ==
    [observation_time |-> pred_time,
     prediction |-> (lower_pred + upper_pred) \div 2,
     lower_bound |-> lower_pred,
     upper_bound |-> upper_pred + Q]
PredictionRecord(pred_time, lower_pred, upper_pred, Q) ==
    LET lb == lower_pred - Q
        ub == upper_pred + Q
        mid_point == (lb + ub) \div 2
    IN  [observation_time |-> pred_time,
         prediction |-> mid_point,
         lower_bound |-> lb,
         upper_bound |-> ub]

\* history row appended after a step (predict.py 97-104)
NewRowWithoutWeather(latest, mid_point) ==
    [no2 |-> mid_point,
     temperature |-> 0,
     humidity |-> 0,
     wind_speed |-> 0,
     pressure |-> 0,
     wind_direction |-> 0]
NewRow(latest, mid_point) ==
    [no2 |-> mid_point,
     temperature |-> latest.temperature,
     humidity |-> latest.humidity,
     wind_speed |-> latest.wind_speed,
     pressure |-> latest.pressure,
     wind_direction |-> latest.wind_direction]

\* last_data[[...]].tail(2).copy()  (predict.py 46-47)
HistoryColumns(row) ==
    [no2 |-> row.no2, temperature |-> row.temperature, humidity |-> row.humidity,
     wind_speed |-> row.wind_speed, pressure |-> row.pressure,
     wind_direction |-> row.wind_direction]
Tail2(tbl) ==
    LET n == Len(tbl)
        k == Min2(2, n)
    IN  [j \in 1..k |-> HistoryColumns(tbl[n - k + j])]

\* pd.concat([history.iloc[1:], new_row])  (predict.py 105)
RollKeepsOldest(h, row) == Append(SubSeq(h, 1, Len(h) - 1), row)
Roll(h, row) == Append(SubSeq(h, 2, Len(h)), row)

Weights == [a : 0..1, b : {1}, c : {1}, d : 0..1, gap : {-1, 1}]
ObservedRows == [no2 : 0..MaxNo2, temperature : 0..1, humidity : {1},
                 wind_speed : {1}, pressure : {1}, wind_direction : {0, 90},
                 observation_time : {0}]
StartTimes == {5 * HoursPerDay + 22, HoursPerWeek - 1}
FittedScalers == {[temperature |-> m, humidity |-> 1, wind_speed |-> 0, pressure |-> 1] :
                    m \in 0..1}

\* a history table: rows one hour apart, ending at a start time
Tables ==
    {[j \in 1..Len(rows) |->
        [rows[j] EXCEPT !.observation_time =
            (t + HoursPerWeek - (Len(rows) - j)) % HoursPerWeek]] :
        rows \in SeqsUpTo(ObservedRows, MaxHistory), t \in StartTimes}

InitForecast ==
    /\ IdleLoop
    /\ IdleThreads
    /\ IdleArtifacts
    /\ IdleSplit /\ IdleCalib /\ IdleRng /\ IdleStore /\ IdleScaler
    /\ fpc = "idle"
    /\ net \in [w : Weights, training : BOOLEAN]
    /\ fQ \in 0..1
    /\ fscalers \in FittedScalers
    /\ last_data \in Tables
    /\ steps = 0
    /\ fi = 0
    /\ history = << >>
    /\ predictions = << >>
    /\ built_features = << >>
    /\ returns = << >>

\* predict.py 42-47: a call with steps = n
CallPredict ==
    /\ fpc = "idle"
    /\ Len(returns) < 2
    /\ \E n \in 0..MaxSteps : steps' = n
    /\ predictions' = << >>
    /\ built_features' = << >>
    /\ history' = Tail2(last_data)
    /\ fi' = 0
    /\ fpc' = "loop"
    /\ UNCHANGED <<net, fQ, fscalers, last_data, returns>>

\* predict.py 49-105: one iteration of the loop; history.iloc[-1] and
\* history.iloc[-2] raise IndexError on a history of fewer than two rows
PredictStep ==
    /\ fpc = "loop"
    /\ fi < steps
    /\ IF Len(history) < 2
       THEN /\ fpc' = "raised"
            /\ UNCHANGED <<net, history, predictions, built_features, fi>>
       ELSE LET latest == history[2]
                prev == history[1]
                pred_time == PredTime(last_data[Len(last_data)].observation_time,
                                      fi, steps)
                f == Features(fscalers, latest, prev, pred_time)
                lower_pred == LowerRaw(net.w, f)
                upper_pred == UpperRaw(net.w, f)
                rec == PredictionRecord(pred_time, lower_pred, upper_pred, fQ)
                mid_point == rec.prediction
            IN  /\ net' = [net EXCEPT !.training = FALSE]
                /\ predictions' = Append(predictions, rec)
                /\ built_features' = Append(built_features, f)
                /\ history' = Roll(history, NewRow(latest, mid_point))
                /\ fi' = fi + 1
                /\ UNCHANGED fpc
    /\ UNCHANGED <<fQ, fscalers, last_data, steps, returns>>

\* predict.py 107
ReturnPredictions ==
    /\ fpc = "loop"
    /\ fi >= steps
    /\ returns' = Append(returns, [steps |-> steps, records |-> predictions])
    /\ fpc' = "idle"
    /\ UNCHANGED <<net, fQ, fscalers, last_data, steps, fi, history, predictions,
                   built_features>>

NextForecast ==
    \/ CallPredict /\ UNCHANGED outsideForecast
    \/ PredictStep /\ UNCHANGED outsideForecast
    \/ ReturnPredictions /\ UNCHANGED outsideForecast

SpecForecast == InitForecast /\ [][NextForecast]_vars

\* C3: when the forecaster has been run with steps = h and with steps = h + 1
\* on the same model, scalers, Q and history (of at least 2 rows), in either
\* order, the first h records of the longer run equal the h records of the
\* shorter one.
HorizonPrefixConsistent ==
    (Len(returns) = 2 /\ Len(last_data) >= 2) =>
        \A x \in 1..2 : \A y \in 1..2 :
            returns[y].steps = returns[x].steps + 1 =>
                /\ Len(returns[x].records) = returns[x].steps
                /\ Len(returns[y].records) = returns[y].steps
                /\ SubSeq(returns[y].records, 1, returns[x].steps) = returns[x].records

RanHorizonsTwoAndThree ==
    /\ Len(returns) = 2
    /\ Len(last_data) >= 2
    /\ returns[1].steps = 2 /\ returns[2].steps = 3
    /\ Len(returns[1].records) = 2
    /\ returns[2].records[3].prediction # returns[2].records[2].prediction

\* C16: a history of fewer than 2 rows makes predict_future_nc_cqr fail with
\* an error, so that it never returns and emits no record; on a history of 2
\* or more rows a call with steps = k returns exactly k records, in
\* increasing timestamp order.
HistoryOfTwoRowsRequired ==
    /\ Len(last_data) < 2 => (returns = << >> /\ predictions = << >>)
    /\ Len(last_data) >= 2 =>
          \A x \in 1..Len(returns) :
              /\ Len(returns[x].records) = returns[x].steps
              /\ \A i \in 1..Len(returns[x].records) :
                    \A j \in 1..Len(returns[x].records) :
                        i < j => returns[x].records[i].observation_time
                                   < returns[x].records[j].observation_time

\* C21: the first feature dict of a rollout has the last and the
\* second-to-last observed NO2 value as lag1 and lag2; every later one has
\* the prediction emitted one step earlier as lag1 and the lag1 used one step
\* earlier as lag2.
LagsFollowRollout ==
    \A i \in 1..Len(built_features) :
        IF i = 1
        THEN /\ built_features[i].no2_lag1 = last_data[Len(last_data)].no2
             /\ built_features[i].no2_lag2 = last_data[Len(last_data) - 1].no2
        ELSE /\ built_features[i].no2_lag1 = predictions[i - 1].prediction
             /\ built_features[i].no2_lag2 = built_features[i - 1].no2_lag1

\* a rollout of three steps whose lags moved at every step
LagsRolledTwice ==
    /\ Len(built_features) = 3
    /\ built_features[2].no2_lag1 # built_features[1].no2_lag1
    /\ built_features[2].no2_lag2 # built_features[1].no2_lag2
    /\ built_features[3].no2_lag1 # built_features[2].no2_lag1
    /\ built_features[3].no2_lag2 = built_features[2].no2_lag1

\* the weather part of the feature dict is the one of the row `row`, and the
\* time part the one of the record's timestamp
WeatherOf(f, row) ==
    /\ f.temperature = row.temperature - fscalers.temperature
    /\ f.humidity = row.humidity - fscalers.humidity
    /\ f.wind_speed = row.wind_speed - fscalers.wind_speed
    /\ f.pressure = row.pressure - fscalers.pressure
    /\ f.wind_sin = WindSin(row.wind_direction)
    /\ f.wind_cos = WindCos(row.wind_direction)
TimeOf(f, t) ==
    /\ f.hour = t % HoursPerDay
    /\ f.day_of_week = (t \div HoursPerDay) % 7
    /\ f.is_weekend = IF (t \div HoursPerDay) % 7 >= 5 THEN 1 ELSE 0
WeatherHeld ==
    \A i \in 1..Len(built_features) :
        /\ WeatherOf(built_features[i], last_data[Len(last_data)])
        /\ TimeOf(built_features[i], predictions[i].observation_time)

\* C22: at every step of a rollout the weather inputs of the feature dict
\* are those of the most recent observed row and the time features those of
\* the forecast timestamp, and no step changes the caller's history table.
WeatherHeldAcrossRollout ==
    [][last_data' = last_data /\ WeatherHeld']_vars

\* three steps over midnight, on a table whose last two rows
\* differ in temperature, with the NO2 lag and the time features moving
WeatherHeldWhileLagsMoved ==
    /\ Len(built_features) = 3
    /\ last_data[Len(last_data)].temperature # last_data[Len(last_data) - 1].temperature
    /\ last_data[Len(last_data)].temperature # 0
    /\ built_features[3].temperature = built_features[1].temperature
    /\ built_features[3].no2_lag1 # built_features[1].no2_lag1
    /\ built_features[3].hour # built_features[1].hour
    /\ built_features[3].day_of_week # built_features[1].day_of_week

\* C23: every emitted record has lower_bound = lower_raw - Q and
\* upper_bound = upper_raw + Q for the raw outputs on the feature dict of its
\* step, its prediction is the midpoint of the two bounds, and the prediction
\* lies between the bounds whenever they are ordered.
RecordsAreCalibratedMidpoints ==
    \A i \in 1..Len(predictions) :
        LET r == predictions[i]
            f == built_features[i]
        IN  /\ r.lower_bound = LowerRaw(net.w, f) - fQ
            /\ r.upper_bound = UpperRaw(net.w, f) + fQ
            /\ 2 * r.prediction = r.lower_bound + r.upper_bound
            /\ r.lower_bound <= r.upper_bound =>
                  (r.lower_bound <= r.prediction /\ r.prediction <= r.upper_bound)

\* a record widened by a non-zero Q, with the prediction strictly inside
RecordWidenedByQ ==
    /\ Len(predictions) >= 1
    /\ fQ > 0
    /\ predictions[1].lower_bound < LowerRaw(net.w, built_features[1])
    /\ predictions[1].lower_bound < predictions[1].prediction
    /\ predictions[1].prediction < predictions[1].upper_bound

(***************************************************************************)
(* Feature standardization.  prepare_nc_cqr_data (data_processing.py       *)
(* 12-61) fits one StandardScaler per continuous column on the table it is *)
(* given; train_full_pipeline (train.py 375-394) calls it on the whole     *)
(* table and splits afterwards; control.train_mode saves the scalers with  *)
(* the model; control.evaluate_mode and predict_with_saved_model           *)
(* standardize later inputs.  One continuous column (temperature) is       *)
(* modelled, the four are treated alike.  Two training runs, each on its   *)
(* own table, are kept side by side.                                       *)
(***************************************************************************)
MaxTable == 6         \* rows of an observation table: 0..MaxTable
MaxTemp == 1          \* temperature values 0..MaxTemp

Runs == 1..2

\* train.py 351-353: the default ratios
DefaultTrainRatio == 6 * (RatioUnit \div 10)
DefaultCalibRatio == 3 * (RatioUnit \div 10)

\* df.dropna() after shift(1) and shift(2)  (data_processing.py 36-40)
LagDropped(col) == SubSeq(col, LagRows + 1, Len(col))

RECURSIVE SumSeq(_)
SumSeq(s) == IF s = << >> THEN 0 ELSE s[1] + SumSeq(Tail(s))

\* StandardScaler.fit (data_processing.py 53-54): the statistics of a
\* column, kept as count, sum and sum of squares (mean_ = sum / n,
\* var_ = sumsq / n - mean_^2)
Fit(col) ==
    [n |-> Len(col),
     sum |-> SumSeq(col),
     sumsq |-> SumSeq([i \in 1..Len(col) |-> col[i] * col[i]])]

\* n^2 * var_
VarTimesN2(st) == st.n * st.sumsq - st.sum * st.sum

\* StandardScaler.transform: (x - mean_) / scale_, with scale_ = sqrt(var_),
\* or 1 when var_ = 0; the value is num / sqrt(den2)
Standardize(st, x) ==
    [num |-> st.n * x - st.sum,
     den2 |-> IF VarTimesN2(st) = 0 THEN st.n * st.n ELSE VarTimesN2(st)]

\* rows of the slice idx (0-based row indices) of the column col
RowsAt(col, idx) == [i \in 1..Len(idx) |-> col[idx[i] + 1]]

Columns == SeqsUpTo(0..MaxTemp, MaxTable)

InitScaler ==
    /\ IdleLoop
    /\ IdleThreads
    /\ IdleArtifacts
    /\ IdleSplit /\ IdleCalib /\ IdleRng /\ IdleStore /\ IdleForecast
    /\ kpc = [r \in Runs |-> "prepare"]
    /\ tables \in [Runs -> Columns]
    /\ fitted = [r \in Runs |-> Nothing]
    /\ X_std = [r \in Runs |-> << >>]
    /\ train_obs = [r \in Runs |-> << >>]
    /\ train_std = [r \in Runs |-> << >>]
    /\ artifact = Nothing
    /\ used = {}

\* train.py 375-378: prepare_nc_cqr_data on the whole table; fit_transform
\* raises ValueError when no row is left
PrepareRun(r) ==
    /\ kpc[r] = "prepare"
    /\ LET rows == LagDropped(tables[r])
       IN  IF Len(rows) = 0
           THEN /\ kpc' = [kpc EXCEPT ![r] = "raised"]
                /\ UNCHANGED <<fitted, X_std>>
           ELSE /\ fitted' = [fitted EXCEPT ![r] = Fit(rows)]
                /\ X_std' = [X_std EXCEPT ![r] =
                                [i \in 1..Len(rows) |-> Standardize(Fit(rows), rows[i])]]
                /\ kpc' = [kpc EXCEPT ![r] = "split"]
    /\ UNCHANGED <<tables, train_obs, train_std, artifact, used>>

\* train.py 381-405 with the default ratios, epochs and batch size: the
\* split, then train_nc_cqr_model, which raises on a training split of
\* fewer than 2 rows and on an empty calibration split
SplitAndTrainRun(r) ==
    /\ kpc[r] = "split"
    /\ LET rows == LagDropped(tables[r])
           n == Len(rows)
       IN  \E nt \in IntOfProduct(n, DefaultTrainRatio),
              nc \in IntOfProduct(n, DefaultCalibRatio) :
              /\ train_obs' = [train_obs EXCEPT ![r] = RowsAt(rows, TrainSlice(n, nt, nc))]
              /\ train_std' = [train_std EXCEPT ![r] = RowsAt(X_std[r], TrainSlice(n, nt, nc))]
              /\ kpc' = [kpc EXCEPT ![r] =
                            IF Len(TrainSlice(n, nt, nc)) < 2 \/ Len(CalibSlice(n, nt, nc)) = 0
                            THEN "raised" ELSE "returned"]
    /\ UNCHANGED <<tables, fitted, X_std, artifact, used>>

\* control.py 24-32: train_mode saves the model, Q and the scalers that
\* train_full_pipeline returned
SaveArtifact ==
    /\ kpc[1] = "returned"
    /\ artifact' = [scalers |-> fitted[1], model |-> "weights", Q |-> "Q"]
    /\ kpc' = [kpc EXCEPT ![1] = "saved"]
    /\ UNCHANGED <<tables, fitted, X_std, train_obs, train_std, used>>

\* control.py 91-106: evaluate_mode on the table the database holds by then
\* (the one of the training run, or another one); it keeps the scalers that
\* prepare_nc_cqr_data returns and drops the ones load_model returns
EvaluateMode ==
    /\ artifact # Nothing
    /\ \A u \in used : u.path # "evaluate_mode"
    /\ \E r \in Runs :
          LET rows == LagDropped(tables[r])
          IN  /\ Len(rows) > 0
              /\ used' = used \cup {[path |-> "evaluate_mode",
                                     scalers |-> Fit(rows),
                                     before |-> artifact,
                                     after |-> artifact]}
    /\ UNCHANGED <<kpc, tables, fitted, X_std, train_obs, train_std, artifact>>

\* predict.py 149-157 and 54-59: predict_with_saved_model passes the scalers
\* that load_model returns to predict_future_nc_cqr
PredictWithSavedModel ==
    /\ artifact # Nothing
    /\ \A u \in used : u.path # "predict"
    /\ used' = used \cup {[path |-> "predict",
                           scalers |-> artifact.scalers,
                           before |-> artifact,
                           after |-> artifact]}
    /\ UNCHANGED <<kpc, tables, fitted, X_std, train_obs, train_std, artifact>>

NextScaler ==
    \/ (\E r \in Runs : PrepareRun(r)) /\ UNCHANGED outsideScaler
    \/ (\E r \in Runs : SplitAndTrainRun(r)) /\ UNCHANGED outsideScaler
    \/ SaveArtifact /\ UNCHANGED outsideScaler
    \/ EvaluateMode /\ UNCHANGED outsideScaler
    \/ PredictWithSavedModel /\ UNCHANGED outsideScaler

SpecScaler == InitScaler /\ [][NextScaler]_vars

\* two fitted scalers hold the same mean and variance
SameStatistics(a, b) ==
    /\ a.sum * b.n = b.sum * a.n
    /\ VarTimesN2(a) * b.n * b.n = VarTimesN2(b) * a.n * a.n

Sign(x) == IF x > 0 THEN 1 ELSE IF x < 0 THEN -1 ELSE 0

\* two standardized values num / sqrt(den2) are equal
SameValue(a, b) ==
    /\ Sign(a.num) = Sign(b.num)
    /\ a.num * a.num * b.den2 = b.num * b.num * a.den2

RunSplit(r) == kpc[r] \in {"returned", "saved"}

\* C11: two training runs whose tables agree on every row of the training
\* split (and differ at most in calibration-split or test-split rows) fit
\* the same standardization statistics and produce the same standardized
\* training features.
ScalersDependOnlyOnTrainRows ==
    (RunSplit(1) /\ RunSplit(2) /\ train_obs[1] = train_obs[2]) =>
        /\ SameStatistics(fitted[1], fitted[2])
        /\ Len(train_std[1]) = Len(train_std[2])
        /\ \A i \in 1..Len(train_std[1]) : SameValue(train_std[1][i], train_std[2][i])

\* C17: every evaluation or inference run after training standardizes with
\* the statistics of the ScalerSet saved with the model, and leaves the
\* saved ScalerSet, weights and Q as they were.
InferenceUsesPersistedScalers ==
    \A u \in used :
        /\ SameStatistics(u.scalers, u.before.scalers)
        /\ u.after = u.before

(***************************************************************************)
(* Model files.  run_pipeline.train_all_cities trains each city through    *)
(* train_city_with_version_control, which writes the daily file of         *)
(* (city, today) and re-points the city's latest-model link, then main     *)
(* calls cleanup_old_models; control.train_mode writes the city's control  *)
(* model file.  A model file holds the output of one training, named by    *)
(* the number of that training.                                            *)
(***************************************************************************)
MaxDay == 8           \* dates 0..MaxDay
MaxTrainings == 2     \* trainings that complete
MaxPartial == 1       \* saves that fail and leave an incomplete file

DaysToKeep == 7       \* cleanup_old_models(days_to_keep=7)
Days == 0..MaxDay
NoLink == -1
\* the file a failed torch.save leaves behind (train.py 318)
PartialFile == -1

\* get_supported_cities(): the keys of CITY_MODEL_MAP, in order
CityList == <<"guangzhou", "dongguan">>

InitArtifacts ==
    /\ IdleLoop
    /\ IdleThreads
    /\ IdleSplit /\ IdleCalib /\ IdleRng /\ IdleStore /\ IdleForecast
    /\ IdleScaler
    /\ today = 0
    /\ daily = [c \in Cities |-> [d \in Days |-> 0]]
    /\ control = [c \in Cities |-> 0]
    /\ latest_link = [c \in Cities |-> NoLink]
    /\ trainings = 0
    /\ run = [pc |-> "idle"]
    /\ results = Nothing

\* is_model_trained_today (run_pipeline.py 58-69)
is_model_trained_today(files, city, date) == files[city][date] # 0

\* create_model_symlink (run_pipeline.py 72-101): the links it can leave for
\* the city: when the daily file exists the old link is removed and a new one
\* is made, and a failure of os.symlink is caught and leaves no link
create_model_symlink(files, links, city, date) ==
    IF files[city][date] # 0 THEN {date, NoLink} ELSE {links[city]}

\* train_all_cities, lines 182-192: the list a processed city is appended to
ListedAs(files, res, city, success, date) ==
    IF ~success THEN "failed"
    ELSE IF is_model_trained_today(files, city, date)
         THEN (IF \E j \in 1..Len(res.successful) : res.successful[j] = city
               THEN "successful" ELSE "skipped")
         ELSE "successful"

\* main (run_pipeline.py 285-299): train_all_cities starts its loop
StartPipeline ==
    /\ run.pc = "idle"
    /\ run' = [pc |-> "cities", i |-> 1,
               successful |-> << >>, failed |-> << >>, skipped |-> << >>,
               outcome |-> << >>, date |-> NoLink]
    /\ UNCHANGED <<today, daily, control, latest_link, trainings, results>>

\* incomplete files in the daily directory
PartialFiles ==
    Cardinality({cd \in Cities \X Days : daily[cd[1]][cd[2]] = PartialFile})

\* train_all_cities, one iteration (run_pipeline.py 170-199), up to the
\* os.remove of create_model_symlink: train_city_with_version_control
\* (104-146) for the i-th city.  torch.save creates the file before it writes
\* it, so a save that raises can leave an incomplete file at the daily path.
PipelineCity ==
    /\ run.pc = "cities"
    /\ run.i <= Len(CityList)
    /\ LET city == CityList[run.i]
       IN  IF is_model_trained_today(daily, city, today)
           THEN \* lines 116-120 and 84-90: skipped, the old link is removed
                /\ latest_link' = [latest_link EXCEPT ![city] = NoLink]
                /\ run' = [run EXCEPT !.pc = "linking", !.date = today,
                                      !.outcome = Append(@, "existed")]
                /\ UNCHANGED <<daily, trainings>>
           ELSE \/ \* lines 126-136 and 84-90: trained, saved, old link removed
                   /\ trainings < MaxTrainings
                   /\ trainings' = trainings + 1
                   /\ daily' = [daily EXCEPT ![city][today] = trainings + 1]
                   /\ latest_link' = [latest_link EXCEPT ![city] = NoLink]
                   /\ run' = [run EXCEPT !.pc = "linking", !.date = today,
                                         !.outcome = Append(@, "trained")]
                \/ \* lines 144-146: the training or the save raised
                   /\ \E left \in {0, PartialFile} :
                         /\ left = PartialFile => PartialFiles < MaxPartial
                         /\ daily' = [daily EXCEPT ![city][today] = left]
                   /\ run' = [run EXCEPT
                                 !.i = @ + 1,
                                 ![ListedAs(daily', run, city, FALSE, today)] =
                                     Append(@, city),
                                 !.outcome = Append(@, "failed")]
                   /\ UNCHANGED <<latest_link, trainings>>
    /\ UNCHANGED <<today, control, results>>

\* the rest of the iteration: os.symlink (run_pipeline.py 92-101), the
\* return of train_city_with_version_control and lines 182-192
LinkCity ==
    /\ run.pc = "linking"
    /\ LET city == CityList[run.i]
       IN  /\ latest_link' \in {[latest_link EXCEPT ![city] = l] :
                                  l \in create_model_symlink(daily, latest_link,
                                                             city, run.date)}
           /\ run' = [run EXCEPT
                         !.pc = "cities",
                         !.i = @ + 1,
                         !.date = NoLink,
                         ![ListedAs(daily, run, city, TRUE, today)] = Append(@, city)]
    /\ UNCHANGED <<today, daily, control, trainings, results>>

\* the name of a daily model file, f"{city}_{date_str}.pth"
\* (config/paths.py 68), in its parts
DailyFileName(c, d) == [city |-> c, infix |-> "_", date |-> d, ext |-> ".pth"]

\* run_pipeline.py 240-246: the files cleanup_old_models removes are those
\* named *_nc_cqr_model_<date>.pth with a date before the cutoff
RemovedByCleanup(name, cutoff) ==
    /\ name.ext = ".pth"
    /\ name.infix = "_nc_cqr_model_"
    /\ name.date < cutoff

\* cleanup_old_models (run_pipeline.py 222-257), called by main once
\* train_all_cities has returned
CleanupOldModels ==
    /\ run.pc = "cities"
    /\ run.i > Len(CityList)
    /\ results' = [successful |-> run.successful, failed |-> run.failed,
                   skipped |-> run.skipped, outcome |-> run.outcome]
    /\ daily' = [c \in Cities |-> [d \in Days |->
                    IF RemovedByCleanup(DailyFileName(c, d), today - DaysToKeep)
                    THEN 0 ELSE daily[c][d]]]
    /\ run' = [pc |-> "idle"]
    /\ UNCHANGED <<today, control, latest_link, trainings>>

\* control.train_mode (control.py 17-44): a training that completes is saved
\* at get_control_model_path(city); one that raises leaves the file alone
TrainMode ==
    /\ \E c \in Cities :
          \/ /\ trainings < MaxTrainings
             /\ trainings' = trainings + 1
             /\ control' = [control EXCEPT ![c] = trainings + 1]
          \/ UNCHANGED <<control, trainings>>
    /\ UNCHANGED <<today, daily, latest_link, run, results>>

\* midnight passes
NextDay ==
    /\ today < MaxDay
    /\ today' = today + 1
    /\ UNCHANGED <<daily, control, latest_link, trainings, run, results>>

NextArtifacts ==
    \/ StartPipeline /\ UNCHANGED outsideArtifacts
    \/ PipelineCity /\ UNCHANGED outsideArtifacts
    \/ LinkCity /\ UNCHANGED outsideArtifacts
    \/ CleanupOldModels /\ UNCHANGED outsideArtifacts
    \/ TrainMode /\ UNCHANGED outsideArtifacts
    \/ NextDay /\ UNCHANGED outsideArtifacts

SpecArtifacts == InitArtifacts /\ [][NextArtifacts]_vars

\* C13: a model file, once saved, is never written again: no step replaces
\* the content of an existing daily file of a (city, date) or of an existing
\* control model file by the output of another training (an old daily file
\* may only be removed).
ArtifactsNeverOverwritten ==
    [][/\ \A c \in Cities : \A d \in Days :
              daily[c][d] # 0 => daily'[c][d] \in {daily[c][d], 0}
       /\ \A c \in Cities : control[c] # 0 => control'[c] = control[c]]_vars

\* C26: when cleanup_old_models returns, no daily model file dated more than
\* DaysToKeep days before today is left, and every daily model file dated
\* within the last DaysToKeep days is still there.
CleanupRemovesOnlyOldModels ==
    [][(run.pc = "cities" /\ run'.pc = "idle") =>
          \A c \in Cities : \A d \in Days :
              IF d < today - DaysToKeep
              THEN daily'[c][d] = 0
              ELSE daily'[c][d] = daily[c][d]]_vars

InList(list, city) == \E j \in 1..Len(list) : list[j] = city
TimesIn(list, city) == Cardinality({j \in 1..Len(list) : list[j] = city})

\* C28: in the result of train_all_cities every supported city is in exactly
\* one of the three lists, once: in successful exactly when a model was
\* trained and saved for it in this run, in skipped exactly when today's
\* model existed before, in failed exactly when its training failed.
EveryCityListedByOutcome ==
    results # Nothing =>
        \A i \in 1..Len(CityList) :
            LET city == CityList[i]
            IN  /\ TimesIn(results.successful, city) + TimesIn(results.skipped, city)
                     + TimesIn(results.failed, city) = 1
                /\ InList(results.successful, city) <=> results.outcome[i] = "trained"
                /\ InList(results.skipped, city) <=> results.outcome[i] = "existed"
                /\ InList(results.failed, city) <=> results.outcome[i] = "failed"

\* C29: a latest-model link that exists keeps existing, in every state a
\* concurrent forecaster can read it in; it refers to a complete daily
\* model; and when train_city_with_version_control has returned True it
\* refers to the daily model of the date of that call.
LatestLinkAlwaysValid ==
    [][/\ \A c \in Cities :
             /\ latest_link[c] # NoLink => latest_link'[c] # NoLink
             /\ latest_link'[c] # NoLink => daily'[c][latest_link'[c]] > 0
       /\ (run.pc = "linking" /\ run'.pc = "cities") =>
             latest_link'[CityList[run.i]] = run.date]_vars

\* C30: when the training or the save of a city fails, the call returns
\* False (the city is listed as failed) and today's daily file of the city
\* does not exist afterwards; a city is taken as already trained only when a
\* complete daily model of today exists.
FailedTrainingLeavesNoArtifact ==
    [][(/\ run.pc = "cities"
        /\ run'.pc \in {"cities", "linking"}
        /\ Len(run'.outcome) = Len(run.outcome) + 1) =>
          LET city == CityList[run.i]
              what == run'.outcome[Len(run'.outcome)]
          IN  /\ what = "failed" =>
                    /\ daily'[city][today] = 0
                    /\ InList(run'.failed, city)
              /\ what = "existed" => daily[city][today] > 0]_vars

(***************************************************************************)
(* Two trainings run as threads of one process, each inside its own        *)
(* ReproducibilityContext (control.py 23-24).  The random, numpy and torch *)
(* generators are process-wide, so both threads read and write the same    *)
(* RNG state; a thread can be preempted between the statements of          *)
(* __enter__ (the snapshot, then the seeding), before the model is built   *)
(* and before __exit__.  The machine has no GPU.                           *)
(***************************************************************************)
InitThreads ==
    /\ IdleLoop
    /\ IdleSplit /\ IdleCalib /\ IdleRng /\ IdleStore /\ IdleForecast
    /\ IdleScaler /\ IdleArtifacts
    /\ tpc = [c \in Cities |-> "start"]
    /\ grng \in {r \in RngStates : r.cuda = 0}
    /\ rng0 = grng
    /\ tctx = [c \in Cities |-> NoContext]
    /\ tinit = [c \in Cities |-> << >>]
    /\ events = << >>

\* __enter__, reproducibility.py 126-129: the snapshot
ThreadSnapshot(c) ==
    /\ tpc[c] = "start"
    /\ tctx' = [tctx EXCEPT ![c] =
                   [city |-> c,
                    original_python_state |-> grng.python,
                    original_numpy_state |-> grng.numpy,
                    original_torch_state |-> grng.torch,
                    original_cuda_state |-> grng.cuda]]
    /\ tpc' = [tpc EXCEPT ![c] = "snapshot"]
    /\ events' = Append(events, <<c, "snapshot">>)
    /\ UNCHANGED <<grng, tinit, rng0>>

\* __enter__, reproducibility.py 136-138: the seeding
ThreadSeed(c) ==
    /\ tpc[c] = "snapshot"
    /\ grng' = set_deterministic_seeds(grng, GeneratedCitySeed[c], FALSE)
    /\ tpc' = [tpc EXCEPT ![c] = "seeded"]
    /\ events' = Append(events, <<c, "seed">>)
    /\ UNCHANGED <<tctx, tinit, rng0>>

\* train.py 156: QuantileNet(...) draws its initial weights from the global
\* torch generator
ThreadBuild(c) ==
    /\ tpc[c] = "seeded"
    /\ tinit' = [tinit EXCEPT ![c] = <<grng.torch>>]
    /\ grng' = [grng EXCEPT !.torch = Advance(grng.torch)]
    /\ tpc' = [tpc EXCEPT ![c] = "built"]
    /\ events' = Append(events, <<c, "build">>)
    /\ UNCHANGED <<tctx, rng0>>

\* __exit__, reproducibility.py 142-162, on return or on an exception raised
\* before the model was built
ThreadExit(c) ==
    /\ tpc[c] \in {"seeded", "built"}
    /\ grng' = RestoreStates(grng, tctx[c], FALSE)
    /\ tpc' = [tpc EXCEPT ![c] = "exited"]
    /\ events' = Append(events, <<c, "exit">>)
    /\ UNCHANGED <<tctx, tinit, rng0>>

NextThreads ==
    \/ (\E c \in Cities : ThreadSnapshot(c)) /\ UNCHANGED outsideThreads
    \/ (\E c \in Cities : ThreadSeed(c)) /\ UNCHANGED outsideThreads
    \/ (\E c \in Cities : ThreadBuild(c)) /\ UNCHANGED outsideThreads
    \/ (\E c \in Cities : ThreadExit(c)) /\ UNCHANGED outsideThreads

SpecThreads == InitThreads /\ [][NextThreads]_vars

\* position of a step in events (0 when it has not been taken)
Pos(c, step) ==
    IF \E i \in 1..Len(events) : events[i] = <<c, step>>
    THEN CHOOSE i \in 1..Len(events) : events[i] = <<c, step>>
    ELSE 0

Happened(c, step) == Pos(c, step) > 0
HappenedBefore(c, step, d, other) ==
    Happened(c, step) /\ Happened(d, other) /\ Pos(c, step) < Pos(d, other)

\* the other thread seeded after a's seeding and was the last to write the
\* torch generator before a built its model
BuiltAfterSeedOf(a, b) ==
    /\ a # b
    /\ HappenedBefore(a, "seed", b, "seed")
    /\ HappenedBefore(b, "seed", a, "build")
    /\ ~HappenedBefore(b, "build", a, "build")
    /\ ~HappenedBefore(b, "exit", a, "build")

\* b took its snapshot inside a's block and restored it after a's exit
RestoredSnapshotOfSeeded(a, b) ==
    /\ a # b
    /\ HappenedBefore(a, "seed", b, "snapshot")
    /\ HappenedBefore(b, "snapshot", a, "exit")
    /\ HappenedBefore(a, "exit", b, "exit")

\* C15: the scoped RNG controller is not thread-safe.  Whenever thread a
\* builds its model after thread b has seeded the shared generators, a's
\* initial weights are the first draw of b's seed; and whenever b took its
\* snapshot inside a's block and exits after a, the global python and numpy
\* states after both exits are those of a's seed, not those the process had
\* before either thread entered.
ThreadsInterfere ==
    \A a \in Cities : \A b \in Cities :
        /\ BuiltAfterSeedOf(a, b) =>
              tinit[a] = <<SeedState(GeneratedCitySeed[b])>>
        /\ RestoredSnapshotOfSeeded(a, b) =>
              /\ grng.python = SeedState(GeneratedCitySeed[a])
              /\ grng.numpy = SeedState(GeneratedCitySeed[a])

\* both outcomes in one run: dongguan's training drew from guangzhou's
\* seeded sequence, and the global RNG state after both exits differs from
\* the one before either entered
InterferenceReached ==
    /\ tpc = [c \in Cities |-> "exited"]
    /\ BuiltAfterSeedOf("dongguan", "guangzhou")
    /\ tinit["dongguan"] = <<SeedState(GeneratedCitySeed["guangzhou"])>>
    /\ tinit["dongguan"] # <<SeedState(GeneratedCitySeed["dongguan"])>>
    /\ RestoredSnapshotOfSeeded("dongguan", "guangzhou")
    /\ grng # rng0

(***************************************************************************)
(* The training loop of train_nc_cqr_model (train.py 156-209), one batch   *)
(* at a time.  The loader (reproducibility.py 234-258) yields              *)
(* ceil(n / batch_size) batches and keeps the trailing one.  The crossing  *)
(* penalty of a batch depends on the weights and the rows; it is drawn     *)
(* from a few values on both sides of the thresholds.  lambda_penalty and  *)
(* the penalties are counted in units of 1 / LambdaUnit.                   *)
(***************************************************************************)
MaxLoopRows == 4      \* rows of the training split: 1..MaxLoopRows
MaxLoopBatch == 3     \* batch sizes 1..MaxLoopBatch
MaxLogs == 1          \* progress reports reached by the longest training

LambdaUnit == 1000

\* train.py 160
InitialLambda == LambdaUnit
\* train.py 195: (epoch + 1) % 50 == 0
LogInterval == 50
\* train.py 208: avg_crossing > 0.1
WarnLevel == LambdaUnit \div 10

\* torch.mean(torch.relu(lower_pred - upper_pred)) of a batch  (train.py 96)
CrossingValues == {0, LambdaUnit \div 200, LambdaUnit \div 10, LambdaUnit \div 2}

EpochChoices ==
    {0, 1} \cup {k * LogInterval : k \in 1..MaxLogs}
           \cup {k * LogInterval + 1 : k \in 1..MaxLogs}

\* the batch sizes one pass over the loader yields
BatchSizes(n, b) ==
    [i \in 1..NumBatches(n, b) |->
        IF i < NumBatches(n, b) THEN b ELSE LastBatchSize(n, b)]

InitLoop ==
    /\ IdleSplit /\ IdleCalib /\ IdleRng /\ IdleStore /\ IdleForecast
    /\ IdleScaler /\ IdleArtifacts /\ IdleThreads
    /\ lpc = "epoch_start"
    /\ loop_rows \in 1..MaxLoopRows
    /\ loop_batch_size \in 1..MaxLoopBatch
    /\ loop_epochs \in EpochChoices
    /\ batch_norm \in BOOLEAN
    /\ loop_epoch = 0
    /\ pending = << >>
    /\ fed = {}
    /\ num_batches = 0
    /\ epoch_crossing_penalty = 0
    /\ lambda_penalty = InitialLambda
    /\ loss_lambda = 0
    /\ warned = FALSE
    /\ loop_error = "none"

\* train.py 162-170: model.train(), the sums are reset, the loader starts a
\* new pass
BeginEpoch ==
    /\ lpc = "epoch_start"
    /\ loop_epoch < loop_epochs
    /\ pending' = BatchSizes(loop_rows, loop_batch_size)
    /\ num_batches' = 0
    /\ epoch_crossing_penalty' = 0
    /\ lpc' = "batches"
    /\ UNCHANGED <<loop_rows, loop_batch_size, loop_epochs, batch_norm,
                   loop_epoch, fed, lambda_penalty, loss_lambda, warned,
                   loop_error>>

\* train.py 170-192: one batch; the forward pass of BatchNorm1d in training
\* mode raises ValueError on a batch of one row
TrainBatch ==
    /\ lpc = "batches"
    /\ pending # << >>
    /\ fed' = fed \cup {Head(pending)}
    /\ IF batch_norm /\ Head(pending) = 1
       THEN /\ lpc' = "raised"
            /\ loop_error' = "ValueError"
            /\ UNCHANGED <<pending, num_batches, epoch_crossing_penalty,
                           loss_lambda>>
       ELSE /\ \E crossing_penalty \in CrossingValues :
                  epoch_crossing_penalty' = epoch_crossing_penalty + crossing_penalty
            /\ loss_lambda' = lambda_penalty
            /\ num_batches' = num_batches + 1
            /\ pending' = Tail(pending)
            /\ UNCHANGED <<lpc, loop_error>>
    /\ UNCHANGED <<loop_rows, loop_batch_size, loop_epochs, batch_norm,
                   loop_epoch, lambda_penalty, warned>>

\* train.py 194-209: the end of an epoch; every LogInterval epochs the
\* averages are printed, with a warning when avg_crossing > 0.1
EndEpoch ==
    /\ lpc = "batches"
    /\ pending = << >>
    /\ warned' = IF (loop_epoch + 1) % LogInterval = 0
                 THEN epoch_crossing_penalty > WarnLevel * num_batches
                 ELSE warned
    /\ loop_epoch' = loop_epoch + 1
    /\ lpc' = "epoch_start"
    /\ UNCHANGED <<loop_rows, loop_batch_size, loop_epochs, batch_norm,
                   pending, fed, num_batches, epoch_crossing_penalty,
                   lambda_penalty, loss_lambda, loop_error>>

\* train.py 162: range(epochs) is exhausted
FinishLoop ==
    /\ lpc = "epoch_start"
    /\ loop_epoch >= loop_epochs
    /\ lpc' = "trained"
    /\ UNCHANGED <<loop_rows, loop_batch_size, loop_epochs, batch_norm,
                   loop_epoch, pending, fed, num_batches,
                   epoch_crossing_penalty, lambda_penalty, loss_lambda,
                   warned, loop_error>>

NextLoop ==
    \/ BeginEpoch /\ UNCHANGED outsideLoop
    \/ TrainBatch /\ UNCHANGED outsideLoop
    \/ EndEpoch /\ UNCHANGED outsideLoop
    \/ FinishLoop /\ UNCHANGED outsideLoop

SpecLoop == InitLoop /\ [][NextLoop]_vars

\* C19: no batch of fewer than 2 rows is given to the network in training
\* mode; such a batch is skipped, so that it raises nothing.
SmallBatchesSkipped ==
    /\ \A size \in fed : size >= 2
    /\ loop_error = "none"

\* the value the crossing-penalty weight takes at a progress report
Adapted(lambda, crossing_sum, batches) ==
    IF crossing_sum > (LambdaUnit \div 5) * batches
    THEN (3 * lambda) \div 2
    ELSE IF crossing_sum < (LambdaUnit \div 100) * batches
         THEN Max2(LambdaUnit \div 10, (9 * lambda) \div 10)
         ELSE lambda

\* C20: lambda starts at 1.0; at every logging interval it becomes
\* 1.5 * lambda when the mean crossing penalty of the epoch exceeds 0.2,
\* max(0.1, 0.9 * lambda) when it is below 0.01, and is unchanged otherwise
\* and between the intervals; it is never below 0.1; the loss of each batch
\* is computed with the current lambda.
LambdaAdaptedAtLogInterval ==
    [][/\ (loop_epoch = 0 /\ lpc = "epoch_start") => lambda_penalty = LambdaUnit
       /\ lambda_penalty' =
             IF loop_epoch' = loop_epoch + 1 /\ loop_epoch' % LogInterval = 0
             THEN Adapted(lambda_penalty, epoch_crossing_penalty, num_batches)
             ELSE lambda_penalty
       /\ 10 * lambda_penalty' >= LambdaUnit
       /\ num_batches' = num_batches + 1 => loss_lambda' = lambda_penalty]_vars

====
